---- MODULE Spec2Model ----
(***************************************************************************)
(* Tagged-response correlation of the GETQUOTA / GETQUOTAROOT commands     *)
(* (src/src/extensions/quota.rs).  A command task polls a stream of        *)
(* io::Result<ResponseData> items through take_while(filter_sync).next(),  *)
(* folds quota data into its result and hands every other record to        *)
(* handle_unilateral, which sends it on the `unsolicited` channel.          *)
(* Mailbox names and their attributes (src/src/types/name.rs): the         *)
(* classification of attribute tokens and the Name built over a            *)
(* ResponseData that it owns.                                              *)
(***************************************************************************)
EXTENDS Integers, Sequences, FiniteSets, TLC

\* ------------------------------------------------------------------ bounds
MaxLen == 4          \* longest input stream enumerated
SinkCap == 2         \* capacity of the unsolicited channel under drop-oldest

Tasks == {1, 2}      \* command tasks (one per in-flight command)
Tags == {"A", "B"}   \* RequestId values
QuotaIds == {1, 2}   \* distinct payloads of quota / quota-root records

\* ------------------------------------------------------------ stream items
\* One item of Stream<Item = io::Result<ResponseData>>: Ok(record) by the
\* parsed() variant of the record, or Err(io error).
Quota(i) == [kind |-> "Quota", tag |-> "-", id |-> i]
QuotaRoot(i) == [kind |-> "QuotaRoot", tag |-> "-", id |-> i]
Other == [kind |-> "Other", tag |-> "-", id |-> 0]
Done(g) == [kind |-> "Done", tag |-> g, id |-> 0]
IoErr == [kind |-> "Err", tag |-> "-", id |-> 0]

Items == {Quota(i) : i \in QuotaIds} \cup {QuotaRoot(i) : i \in QuotaIds}
         \cup {Other, IoErr} \cup {Done(g) : g \in Tags}

Streams == UNION {[1..n -> Items] : n \in 0..MaxLen}

VARIABLES
    stream,       \* stream[s]: the items the transport yields on stream s, then None
    pos,          \* pos[s]: number of items already taken from stream s
    cmd,          \* cmd[t]: which function task t runs
    command_tag,  \* command_tag[t]: the tag the task correlates for
    sid,          \* sid[t]: the stream task t was given (&mut T)
    start,        \* start[t]: pos of its stream when the call began
    pc,           \* pc[t]: "idle" | "next" (awaiting the stream) | "send" (awaiting handle_unilateral) | "returned"
    resp,         \* resp[t]: the record handed to handle_unilateral while pc[t] = "send"
    roots,        \* roots[t]: Vec<QuotaRoot> of parse_get_quota_root
    quotas,       \* quotas[t]: Vec<Quota> of parse_get_quota_root
    result,       \* result[t]: what the call returned
    policy,       \* kind of the unsolicited channel: "unbounded" | "bounded"
    unsolicited,  \* records in the unsolicited channel, oldest first
    sinkLog,      \* history: every record that entered the channel, with its sender
    response,     \* the ResponseData given to Name::from_mailbox_data
    name,         \* the Name built from it (src/src/types/name.rs)
    token,        \* a token string given to NameAttribute::from
    attr_owned,   \* NameAttribute::from(token: String)
    attr_borrowed \* NameAttribute::from(token: &str)

quotaVars == <<stream, pos, cmd, command_tag, sid, start, pc, resp, roots, quotas,
               result, policy, unsolicited, sinkLog>>

nameVars == <<response, name, token, attr_owned, attr_borrowed>>

vars == <<quotaVars, nameVars>>

\* ---------------------------------------------------------------- results
Pending == [kind |-> "Pending", quota |-> <<>>, roots |-> <<>>, quotas |-> <<>>]
OkQuota(q) == [kind |-> "Ok", quota |-> <<q>>, roots |-> <<>>, quotas |-> <<>>]
OkQuotaRoot(rs, qs) == [kind |-> "Ok", quota |-> <<>>, roots |-> rs, quotas |-> qs]
ErrIo == [kind |-> "Err", quota |-> <<>>, roots |-> <<>>, quotas |-> <<>>]
Panic == [kind |-> "Panic", quota |-> <<>>, roots |-> <<>>, quotas |-> <<>>]

\* ------------------------------------------------------- pure operations
\* parse::filter_sync (crate::parse, imported at quota.rs:13): FALSE exactly on
\* the tagged completion for command_tag, TRUE on every other item; an I/O
\* error item passes and reaches `resp?`.
filter_sync(res, tag) == ~(res.kind = "Done" /\ res.tag = tag)

\* Fault model of take_while_next: `filter` in place of `take_while`, which
\* skips the items the predicate rejects and yields the next one it accepts.
take_while_next_filter(s, p, tag) ==
    LET live == {i \in (p + 1)..Len(s) : filter_sync(s[i], tag)}
    IN  IF live = {} THEN [some |-> FALSE, item |-> IoErr, pos |-> Len(s)]
        ELSE LET i == CHOOSE k \in live : \A j \in live : k <= j
             IN  [some |-> TRUE, item |-> s[i], pos |-> i]

\* Fault model of take_while_next: the predicate ignores the tag, so that a
\* completion of any command ends the loop.
take_while_next_any_tag(s, p, tag) ==
    IF p >= Len(s) THEN [some |-> FALSE, item |-> IoErr, pos |-> p]
    ELSE IF s[p + 1].kind # "Done"
         THEN [some |-> TRUE, item |-> s[p + 1], pos |-> p + 1]
         ELSE [some |-> FALSE, item |-> IoErr, pos |-> p + 1]

\* stream.take_while(|res| filter_sync(res, &command_tag)).next(): takes one
\* item from the stream when there is one; yields it when the predicate holds,
\* and None (the item dropped) when it does not or when the stream has ended.
\* The `item` field is meaningful only when `some` holds.
take_while_next(s, p, tag) ==
    IF p >= Len(s) THEN [some |-> FALSE, item |-> IoErr, pos |-> p]
    ELSE IF filter_sync(s[p + 1], tag)
         THEN [some |-> TRUE, item |-> s[p + 1], pos |-> p + 1]
         ELSE [some |-> FALSE, item |-> IoErr, pos |-> p + 1]

\* Fault model of get_quota_match: the arm also matches quota-root data.
get_quota_match_any(r) ==
    IF r.kind \in {"Quota", "QuotaRoot"} THEN "return" ELSE "unilateral"

\* match resp.parsed() of parse_get_quota: the arm taken for a record.
get_quota_match(r) ==
    IF r.kind = "Quota" THEN "return" ELSE "unilateral"

\* Fault model of get_quota_root_match: the two pushes exchanged.
get_quota_root_match_swapped(r) ==
    IF r.kind = "QuotaRoot" THEN "quotas"
    ELSE IF r.kind = "Quota" THEN "roots"
    ELSE "unilateral"

\* Fault model of get_quota_root_match: the quota-root arm is missing, so
\* that quota-root data falls to the catch-all arm.
get_quota_root_match_noroot(r) ==
    IF r.kind = "Quota" THEN "quotas" ELSE "unilateral"

\* match resp.parsed() of parse_get_quota_root: the arm taken for a record.
get_quota_root_match(r) ==
    IF r.kind = "QuotaRoot" THEN "roots"
    ELSE IF r.kind = "Quota" THEN "quotas"
    ELSE "unilateral"

\* Fault model of is_io_err: the error is swallowed and the item treated as
\* a record.
is_io_err_swallowed(r) == FALSE

\* `let resp = resp?;`: whether the item is Err, which the call returns.
is_io_err(r) == r.kind = "Err"

\* Vec::push
push(v, x) == Append(v, x)

\* Fault model of may_poll: the send is not awaited before the next poll.
may_poll_spawned(t) == pc[t] \in {"next", "send"}

\* Fault model of may_poll: a future that was dropped is polled again.
may_poll_cancelled(t) == pc[t] \in {"next", "cancelled"}

\* The loop polls the stream again only after handle_unilateral(..).await
\* has completed.
may_poll(t) == pc[t] = "next"

\* channel::Sender of async_std: the channel behind it is unbounded, or
\* bounded with a capacity; a send into a bounded channel that is full waits
\* until a receiver has taken a record.
sink_has_room(ch) == policy = "unbounded" \/ Len(ch) < SinkCap

\* A send that does not wait puts the record at the end of the channel.
sink_send(ch, r) == Append(ch, r)

\* ------------------------------------------------- names and attributes
\* (src/src/types/name.rs)
NoResponse == [kind |-> "None", flags |-> <<>>, delimiter |-> <<>>, name |-> ""]
NoName == [state |-> "none", attributes |-> <<>>, delimiter |-> <<>>, name |-> ""]
NoAttr == [variant |-> "None", special |-> "-", text |-> "", cow |-> "-"]

MaxFlags == 3        \* longest flag list of a mailbox-listing record enumerated

\* enum NameAttribute; Custom holds a Cow<str>: its text and whether the text
\* is owned or borrowed.
NoInferiors == [variant |-> "NoInferiors", special |-> "-", text |-> "", cow |-> "-"]
NoSelect == [variant |-> "NoSelect", special |-> "-", text |-> "", cow |-> "-"]
Marked == [variant |-> "Marked", special |-> "-", text |-> "", cow |-> "-"]
Unmarked == [variant |-> "Unmarked", special |-> "-", text |-> "", cow |-> "-"]
SpecialUseMailbox(v) ==
    [variant |-> "SpecialUseMailbox", special |-> v, text |-> "", cow |-> "-"]
Custom(c, s) == [variant |-> "Custom", special |-> "-", text |-> s, cow |-> c]

\* #[derive(PartialEq)] on NameAttribute: same variant and equal payload; two
\* Cow<str> are equal when their texts are.
attr_eq(a, b) ==
    a.variant = b.variant /\ a.special = b.special /\ a.text = b.text

\* Token strings given to the classification: the vocabulary, spellings of
\* it that differ in case or in white space, and other strings.
Tokens ==
    {"\\Noinferiors", "\\Noselect", "\\Marked", "\\Unmarked",
     "\\All", "\\Archive", "\\Drafts", "\\Flagged", "\\Junk", "\\Sent", "\\Trash",
     "\\noselect", "\\NOSELECT", "\\NoSelect", "\\marked", "\\noinferiors",
     "\\all", "\\ALL", "\\trash", "\\Draft", "\\Foo", "\\HasNoChildren",
     "Noselect", "All", "\\Marked ", " \\Marked", ""}

\* NameAttribute::special_use_mailbox: Some(attribute) or None (NoAttr).
special_use_mailbox(s) ==
    CASE s = "\\All" -> SpecialUseMailbox("All")
      [] s = "\\Archive" -> SpecialUseMailbox("Archive")
      [] s = "\\Drafts" -> SpecialUseMailbox("Drafts")
      [] s = "\\Flagged" -> SpecialUseMailbox("Flagged")
      [] s = "\\Junk" -> SpecialUseMailbox("Junk")
      [] s = "\\Sent" -> SpecialUseMailbox("Sent")
      [] s = "\\Trash" -> SpecialUseMailbox("Trash")
      [] OTHER -> NoAttr

\* Fault model of system: the tokens are matched without regard to case.
system_nocase(s) ==
    CASE s \in {"\\Noinferiors", "\\noinferiors"} -> NoInferiors
      [] s \in {"\\Noselect", "\\noselect", "\\NOSELECT", "\\NoSelect"} -> NoSelect
      [] s \in {"\\Marked", "\\marked"} -> Marked
      [] s = "\\Unmarked" -> Unmarked
      [] OTHER -> NoAttr

\* NameAttribute::system: Some(attribute) or None (NoAttr).
system(s) ==
    CASE s = "\\Noinferiors" -> NoInferiors
      [] s = "\\Noselect" -> NoSelect
      [] s = "\\Marked" -> Marked
      [] s = "\\Unmarked" -> Unmarked
      [] OTHER -> NoAttr

\* Fault model of from_String: the special-use vocabulary is not consulted.
from_String_no_special(s) ==
    IF system(s) # NoAttr THEN system(s) ELSE Custom("Owned", s)

\* impl From<String> for NameAttribute
from_String(s) ==
    IF system(s) # NoAttr THEN system(s)
    ELSE IF special_use_mailbox(s) # NoAttr THEN special_use_mailbox(s)
    ELSE Custom("Owned", s)

\* impl From<&str> for NameAttribute
from_str(s) ==
    IF system(s) # NoAttr THEN system(s)
    ELSE IF special_use_mailbox(s) # NoAttr THEN special_use_mailbox(s)
    ELSE Custom("Borrowed", s)

\* ResponseData given to from_mailbox_data, by its parsed() form:
\* MailboxData(List {flags, delimiter, name}), another MailboxData, or a
\* response that is no mailbox data.  An Option is a sequence of length <= 1.
FlagTokens == {"\\Noselect", "\\Marked", "\\Foo", "\\All"}
FlagLists == UNION {[1..n -> FlagTokens] : n \in 0..MaxFlags}
Delimiters == {<<>>, <<"/">>}
MailboxNames == {"INBOX", "INBOX/Sub"}

ListResponses ==
    {[kind |-> "List", flags |-> f, delimiter |-> d, name |-> n] :
        f \in FlagLists, d \in Delimiters, n \in MailboxNames}

OtherResponses ==
    {[kind |-> k, flags |-> <<>>, delimiter |-> <<>>, name |-> ""] :
        k \in {"MailboxStatus", "Quota", "Done"}}

\* Fault model of is_list: every MailboxData is accepted.
is_list_any_mailbox(r) == r.kind \in {"List", "MailboxStatus"}

\* The pattern Response::MailboxData(MailboxDatum::List { .. }).
is_list(r) == r.kind = "List"

\* Fault model of inner_name: the attributes are collected in reverse.
inner_name_reversed(flags, delimiter, nm) ==
    [state |-> "built",
     attributes |-> [i \in 1..Len(flags) |-> from_str(flags[Len(flags) + 1 - i])],
     delimiter |-> delimiter,
     name |-> nm]

\* InnerName { attributes: flags.iter().map(NameAttribute::from).collect(),
\*             delimiter: delimiter.as_deref(), name }
inner_name(flags, delimiter, nm) ==
    [state |-> "built",
     attributes |-> [i \in 1..Len(flags) |-> from_str(flags[i])],
     delimiter |-> delimiter,
     name |-> nm]

\* Accessors of Name.
Name_attributes(n) == n.attributes
Name_delimiter(n) == n.delimiter
Name_name(n) == n.name

\* ------------------------------------------------------------------- Init
InitTask(c, g, s) ==
    /\ stream = [x \in Tasks |-> IF x = 1 THEN s ELSE <<>>]
    /\ pos = [x \in Tasks |-> 0]
    /\ cmd = [t \in Tasks |-> c]
    /\ command_tag = [t \in Tasks |-> g]
    /\ sid = [t \in Tasks |-> t]
    /\ start = [t \in Tasks |-> 0]
    /\ pc = [t \in Tasks |-> IF t = 1 THEN "next" ELSE "idle"]
    /\ resp = [t \in Tasks |-> Other]
    /\ roots = [t \in Tasks |-> <<>>]
    /\ quotas = [t \in Tasks |-> <<>>]
    /\ result = [t \in Tasks |-> Pending]
    /\ unsolicited = <<>>
    /\ sinkLog = <<>>

\* No Name has been built and no token classified.
NameIdle ==
    /\ response = NoResponse
    /\ name = NoName
    /\ token = ""
    /\ attr_owned = NoAttr
    /\ attr_borrowed = NoAttr

\* One command, with tag "A", has just been called on a stream.
Init ==
    /\ policy \in {"unbounded", "bounded"}
    /\ \E c \in {"get_quota", "get_quota_root"}, s \in Streams : InitTask(c, "A", s)
    /\ NameIdle

\* ---------------------------------------------------------------- actions
Return(t, res) ==
    /\ pc' = [pc EXCEPT ![t] = "returned"]
    /\ result' = [result EXCEPT ![t] = res]

\* One iteration of the while-let loop of parse_get_quota, up to its next
\* suspension point or return.
parse_get_quota(t) ==
    /\ cmd[t] = "get_quota"
    /\ may_poll(t)
    /\ LET r == take_while_next(stream[sid[t]], pos[sid[t]], command_tag[t])
       IN  /\ pos' = [pos EXCEPT ![sid[t]] = r.pos]
           /\ IF ~r.some
              THEN Return(t, Panic) /\ UNCHANGED resp             \* unreachable!()
              ELSE IF is_io_err(r.item)
              THEN Return(t, ErrIo) /\ UNCHANGED resp             \* resp?
              ELSE IF get_quota_match(r.item) = "return"
              THEN Return(t, OkQuota(r.item)) /\ UNCHANGED resp
              ELSE /\ pc' = [pc EXCEPT ![t] = "send"]           \* handle_unilateral(..).await
                   /\ resp' = [resp EXCEPT ![t] = r.item]
                   /\ UNCHANGED result
    /\ UNCHANGED <<stream, cmd, command_tag, sid, start, roots, quotas, policy,
                   unsolicited, sinkLog, nameVars>>

\* One iteration of the while-let loop of parse_get_quota_root.
parse_get_quota_root(t) ==
    /\ cmd[t] = "get_quota_root"
    /\ may_poll(t)
    /\ LET r == take_while_next(stream[sid[t]], pos[sid[t]], command_tag[t])
           m == get_quota_root_match(r.item)
       IN  /\ pos' = [pos EXCEPT ![sid[t]] = r.pos]
           /\ IF ~r.some
              THEN /\ Return(t, OkQuotaRoot(roots[t], quotas[t]))  \* Ok((roots, quotas))
                   /\ UNCHANGED <<resp, roots, quotas>>
              ELSE IF is_io_err(r.item)
              THEN Return(t, ErrIo) /\ UNCHANGED <<resp, roots, quotas>>
              ELSE IF m = "roots"
              THEN /\ roots' = [roots EXCEPT ![t] = push(@, r.item)]
                   /\ pc' = [pc EXCEPT ![t] = "next"]
                   /\ UNCHANGED <<resp, quotas, result>>
              ELSE IF m = "quotas"
              THEN /\ quotas' = [quotas EXCEPT ![t] = push(@, r.item)]
                   /\ pc' = [pc EXCEPT ![t] = "next"]
                   /\ UNCHANGED <<resp, roots, result>>
              ELSE /\ pc' = [pc EXCEPT ![t] = "send"]           \* handle_unilateral(..).await
                   /\ resp' = [resp EXCEPT ![t] = r.item]
                   /\ UNCHANGED <<roots, quotas, result>>
    /\ UNCHANGED <<stream, cmd, command_tag, sid, start, policy, unsolicited, sinkLog,
                   nameVars>>

\* handle_unilateral(resp, unsolicited.clone()).await completes: the record
\* is in the channel and the loop goes on. While the channel has no room the
\* send, and with it the call, stays suspended.
handle_unilateral(t) ==
    /\ pc[t] = "send"
    /\ sink_has_room(unsolicited)
    /\ unsolicited' = sink_send(unsolicited, resp[t])
    /\ sinkLog' = Append(sinkLog, [task |-> t, rec |-> resp[t]])
    /\ pc' = [pc EXCEPT ![t] = "next"]
    /\ UNCHANGED <<stream, pos, cmd, command_tag, sid, start, resp, roots, quotas,
                   result, policy, nameVars>>

\* An external subscriber takes the oldest record from the channel.
Recv ==
    /\ unsolicited # <<>>
    /\ unsolicited' = Tail(unsolicited)
    /\ UNCHANGED <<stream, pos, cmd, command_tag, sid, start, pc, resp, roots,
                   quotas, result, policy, sinkLog, nameVars>>

\* The future of the call is dropped at one of its suspension points (the
\* .await on the next item, the .await on the send): it is never polled again,
\* and the record it was sending, roots and quotas are dropped with it.
Cancel(t) ==
    /\ pc[t] \in {"next", "send"}
    /\ pc' = [pc EXCEPT ![t] = "cancelled"]
    /\ UNCHANGED <<stream, pos, cmd, command_tag, sid, start, resp, roots, quotas,
                   result, policy, unsolicited, sinkLog, nameVars>>

\* ------------------------------------------------------ actions of names
\* NameAttribute::from called on a token, as a String and as a &str.
Classify ==
    /\ \E s \in Tokens :
           /\ token' = s
           /\ attr_owned' = from_String(s)
           /\ attr_borrowed' = from_str(s)
    /\ UNCHANGED <<quotaVars, response, name>>

\* Name::from_mailbox_data(resp)
from_mailbox_data ==
    /\ name.state = "none"
    /\ IF is_list(response)
       THEN name' = inner_name(response.flags, response.delimiter, response.name)
       ELSE name' = [NoName EXCEPT !.state = "panicked"]  \* panic!(..)
    /\ UNCHANGED <<quotaVars, response, token, attr_owned, attr_borrowed>>

\* The Name is dropped.
DropName ==
    /\ name.state = "built"
    /\ name' = [name EXCEPT !.state = "dropped"]
    /\ UNCHANGED <<quotaVars, response, token, attr_owned, attr_borrowed>>

\* No command runs.
QuotaIdle ==
    /\ policy = "unbounded"
    /\ stream = [x \in Tasks |-> <<>>]
    /\ pos = [x \in Tasks |-> 0]
    /\ cmd = [t \in Tasks |-> "get_quota"]
    /\ command_tag = [t \in Tasks |-> "A"]
    /\ sid = [t \in Tasks |-> t]
    /\ start = [t \in Tasks |-> 0]
    /\ pc = [t \in Tasks |-> "idle"]
    /\ resp = [t \in Tasks |-> Other]
    /\ roots = [t \in Tasks |-> <<>>]
    /\ quotas = [t \in Tasks |-> <<>>]
    /\ result = [t \in Tasks |-> Pending]
    /\ unsolicited = <<>>
    /\ sinkLog = <<>>

\* A ResponseData has been received and handed to the caller of
\* from_mailbox_data; nothing has been classified.
InitName ==
    /\ QuotaIdle
    /\ response \in ListResponses \cup OtherResponses
    /\ name = NoName
    /\ token = ""
    /\ attr_owned = NoAttr
    /\ attr_borrowed = NoAttr

NextName == Classify \/ from_mailbox_data \/ DropName

NameSpec == InitName /\ [][NextName]_vars

Step(t) == parse_get_quota(t) \/ parse_get_quota_root(t) \/ handle_unilateral(t)

Next == (\E t \in Tasks : Step(t)) \/ Recv

Spec == Init /\ [][Next]_vars

\* The executor keeps polling a task that can make progress (a task whose
\* send waits for room in the channel cannot); nothing obliges a subscriber to
\* drain the channel.
LiveSpec == Init /\ [][Next]_vars /\ \A t \in Tasks : WF_vars(Step(t))

\* One command whose task may be cancelled while it is suspended.
NextCancel == Next \/ \E t \in Tasks : Cancel(t)

CancelSpec == Init /\ [][NextCancel]_vars

\* Two commands run at the same time, get_quota("A") and get_quota_root("B"),
\* each on a stream of its own (two sessions), and share the unsolicited
\* channel.
ConcLen == 2         \* longest stream of each of two concurrent commands

\* Records of the two streams: unsolicited data, the completions of both tags,
\* quota data, and quota-root data (which get_quota has to forward).
ConcItems(t) ==
    IF t = 1 THEN {Other, Quota(1), QuotaRoot(1), Done("A"), Done("B")}
    ELSE {Other, Quota(1), Done("A"), Done("B")}

ConcStreams(t) == UNION {[1..n -> ConcItems(t)] : n \in 0..ConcLen}

InitConc ==
    /\ policy \in {"unbounded", "bounded"}
    /\ \E s1 \in ConcStreams(1), s2 \in ConcStreams(2) :
           stream = [x \in Tasks |-> IF x = 1 THEN s1 ELSE s2]
    /\ pos = [x \in Tasks |-> 0]
    /\ cmd = [t \in Tasks |-> IF t = 1 THEN "get_quota" ELSE "get_quota_root"]
    /\ command_tag = [t \in Tasks |-> IF t = 1 THEN "A" ELSE "B"]
    /\ sid = [t \in Tasks |-> t]
    /\ start = [t \in Tasks |-> 0]
    /\ pc = [t \in Tasks |-> "next"]
    /\ resp = [t \in Tasks |-> Other]
    /\ roots = [t \in Tasks |-> <<>>]
    /\ quotas = [t \in Tasks |-> <<>>]
    /\ result = [t \in Tasks |-> Pending]
    /\ unsolicited = <<>>
    /\ sinkLog = <<>>
    /\ NameIdle

ConcSpec == InitConc /\ [][Next]_vars

\* Two commands run one after the other on the same stream: first the one with
\* tag "A" (task 1), then, once it has returned a result, the one with tag "B"
\* (task 2). The server sends the records of A's reply, A's tagged completion,
\* the records of B's reply, B's tagged completion; the quota data of the reply
\* to A carries id 1, that of the reply to B id 2.
SeqLen == 2          \* most records in the reply to one of two successive commands

ReplyRecords(i) == {Quota(i), QuotaRoot(i), Other}

Replies(i) == UNION {[1..n -> ReplyRecords(i)] : n \in 0..SeqLen}

InitSeq ==
    /\ policy \in {"unbounded", "bounded"}
    /\ \E ra \in Replies(1), rb \in Replies(2) :
           stream = [x \in Tasks |->
                        IF x = 1 THEN ra \o <<Done("A")>> \o rb \o <<Done("B")>>
                        ELSE <<>>]
    /\ pos = [x \in Tasks |-> 0]
    /\ cmd \in [Tasks -> {"get_quota", "get_quota_root"}]
    /\ command_tag = [t \in Tasks |-> IF t = 1 THEN "A" ELSE "B"]
    /\ sid = [t \in Tasks |-> 1]
    /\ start = [t \in Tasks |-> 0]
    /\ pc = [t \in Tasks |-> IF t = 1 THEN "next" ELSE "idle"]
    /\ resp = [t \in Tasks |-> Other]
    /\ roots = [t \in Tasks |-> <<>>]
    /\ quotas = [t \in Tasks |-> <<>>]
    /\ result = [t \in Tasks |-> Pending]
    /\ unsolicited = <<>>
    /\ sinkLog = <<>>
    /\ NameIdle

\* The caller, holding the first command's result, calls the second command
\* on the same stream: it reads on from where the first call stopped.
StartSecond ==
    /\ pc[1] = "returned" /\ result[1].kind = "Ok"
    /\ pc[2] = "idle"
    /\ pc' = [pc EXCEPT ![2] = "next"]
    /\ start' = [start EXCEPT ![2] = pos[sid[2]]]
    /\ UNCHANGED <<stream, pos, cmd, command_tag, sid, resp, roots, quotas, result,
                   policy, unsolicited, sinkLog, nameVars>>

NextSeq == Next \/ StartSecond

SeqSpec == InitSeq /\ [][NextSeq]_vars

\* ============================================================ properties
\* The items the call of task t has taken from its stream so far.
Read(t) == SubSeq(stream[sid[t]], start[t] + 1, pos[sid[t]])

\* What the stream of task t held when the call began.
Input(t) == SubSeq(stream[sid[t]], start[t] + 1, Len(stream[sid[t]]))

IsCompletion(t, r) == r.kind = "Done" /\ r.tag = command_tag[t]

\* Index in sequence s of the first tagged completion for t's tag; 0 if none.
FirstDone(t, s) ==
    IF \E i \in 1..Len(s) : IsCompletion(t, s[i])
    THEN CHOOSE i \in 1..Len(s) :
             IsCompletion(t, s[i]) /\ \A j \in 1..(i - 1) : ~IsCompletion(t, s[j])
    ELSE 0

\* Index in sequence s of the first quota record; 0 if none.
FirstQuota(s) ==
    IF \E i \in 1..Len(s) : s[i].kind = "Quota"
    THEN CHOOSE i \in 1..Len(s) :
             s[i].kind = "Quota" /\ \A j \in 1..(i - 1) : s[j].kind # "Quota"
    ELSE 0

IsQuota(r) == r.kind = "Quota"
IsQuotaRoot(r) == r.kind = "QuotaRoot"
NoErrIn(s) == \A i \in 1..Len(s) : s[i].kind # "Err"

\* The records task t has put into the channel, oldest first.
RECURSIVE SentBy(_, _)
SentBy(t, log) ==
    IF log = <<>> THEN <<>>
    ELSE IF Head(log).task = t THEN <<Head(log).rec>> \o SentBy(t, Tail(log))
    ELSE SentBy(t, Tail(log))

IsPrefix(a, b) == Len(a) <= Len(b) /\ SubSeq(b, 1, Len(a)) = a

Returned(t) == pc[t] = "returned"

\* C1: a successful result is returned only after the call has consumed the
\* tagged completion for its tag: the last item it took is that completion.
C1_OkOnlyAfterCompletion ==
    \A t \in Tasks :
        (Returned(t) /\ result[t].kind = "Ok")
            => (Read(t) # <<>> /\ IsCompletion(t, Read(t)[Len(Read(t))]))

\* C2: when the stream ends with no tagged completion for the tag, get_quota
\* returns the MissingCompletion error (no quota, no panic).
C2_GetQuotaMissingCompletion ==
    \A t \in Tasks :
        (Returned(t) /\ cmd[t] = "get_quota" /\ FirstDone(t, Input(t)) = 0)
            => result[t].kind = "MissingCompletion"

\* C3: when the tagged completion arrives with no quota record before it,
\* get_quota returns the EmptyResult error (no panic, no default quota).
C3_GetQuotaEmptyResult ==
    \A t \in Tasks :
        (Returned(t) /\ cmd[t] = "get_quota"
         /\ FirstDone(t, Input(t)) > 0
         /\ NoErrIn(SubSeq(Input(t), 1, FirstDone(t, Input(t))))
         /\ FirstQuota(SubSeq(Input(t), 1, FirstDone(t, Input(t)))) = 0)
            => result[t].kind = "EmptyResult"

\* C4: when the stream ends with no tagged completion for the tag,
\* get_quota_root returns the MissingCompletion error, not the collections
\* accumulated so far.
C4_GetQuotaRootMissingCompletion ==
    \A t \in Tasks :
        (Returned(t) /\ cmd[t] = "get_quota_root" /\ FirstDone(t, Input(t)) = 0)
            => result[t].kind = "MissingCompletion"

\* What a call forwards of the items it took: every record that is neither
\* captured into the result, nor the completion that ended the loop, nor an
\* I/O error.
Forwardable(t, s) ==
    LET keep(r) == /\ r.kind \notin {"Quota", "Err"}
                   /\ ~IsCompletion(t, r)
                   /\ (cmd[t] = "get_quota_root" => r.kind # "QuotaRoot")
    IN  SelectSeq(s, keep)

\* The record task t has handed to handle_unilateral and is still sending.
InFlight(t) == IF pc[t] = "send" THEN <<resp[t]>> ELSE <<>>

\* C5: when a quota record precedes the tagged completion (and every item up
\* to it is a record), get_quota returns exactly the first quota record in
\* arrival order, read as the last item the call took; whenever get_quota
\* returns a quota at all it is that first one, never a later one.
C5_FirstQuotaWins ==
    \A t \in Tasks :
        (Returned(t) /\ cmd[t] = "get_quota") =>
            LET in == Input(t)
                k == FirstQuota(in)
                d == FirstDone(t, in)
            IN  /\ result[t].kind = "Ok" =>
                       /\ k > 0
                       /\ result[t] = OkQuota(in[k])
                       /\ pos[sid[t]] = start[t] + k
                /\ (k > 0 /\ (d = 0 \/ k < d) /\ NoErrIn(SubSeq(in, 1, k)))
                       => result[t].kind = "Ok"

C5_Witness ==
    \E t \in Tasks :
        /\ Returned(t) /\ cmd[t] = "get_quota" /\ result[t].kind = "Ok"
        /\ LET in == Input(t)
               k == FirstQuota(in)
               d == FirstDone(t, in)
           IN  \E j \in (k + 1)..(d - 1) :
                   in[j].kind = "Quota" /\ in[j] # in[k] /\ result[t].quota = <<in[k]>>

\* C6: when get_quota_root reaches the tagged completion, it returns
\* (roots, quotas) where roots is exactly the quota-root records and quotas
\* exactly the quota records that arrived before the completion, each in
\* arrival order (an empty collection is a success too); and whatever it
\* returns as success is the two subsequences of the items it took.
C6_RootBundleInOrder ==
    \A t \in Tasks :
        (Returned(t) /\ cmd[t] = "get_quota_root") =>
            LET in == Input(t)
                d == FirstDone(t, in)
            IN  /\ (d > 0 /\ NoErrIn(SubSeq(in, 1, d))) =>
                       /\ result[t] = OkQuotaRoot(
                              SelectSeq(SubSeq(in, 1, d - 1), IsQuotaRoot),
                              SelectSeq(SubSeq(in, 1, d - 1), IsQuota))
                       /\ pos[sid[t]] = start[t] + d
                /\ result[t].kind = "Ok" =>
                       /\ result[t].roots = SelectSeq(Read(t), IsQuotaRoot)
                       /\ result[t].quotas = SelectSeq(Read(t), IsQuota)

C6_Witness ==
    \E t \in Tasks :
        /\ Returned(t) /\ cmd[t] = "get_quota_root" /\ result[t].kind = "Ok"
        /\ Read(t) # <<>> /\ IsCompletion(t, Read(t)[Len(Read(t))])
        /\ Len(result[t].roots) = 1
        /\ Len(result[t].quotas) = 2
        /\ result[t].quotas[1] # result[t].quotas[2]

\* C7: in get_quota, the records that arrive before the first quota record
\* and are not quota data (a completion bearing another tag included) are all
\* delivered to the unsolicited channel, none of them ends or fails the
\* command, and the command returns the quota.
C7_UnrelatedGoToSink ==
    \A t \in Tasks :
        LET in == Input(t)
            k == FirstQuota(in)
            pre == SubSeq(in, 1, k - 1)
        IN  (cmd[t] = "get_quota" /\ pc[t] # "idle" /\ k > 0
             /\ FirstDone(t, pre) = 0 /\ NoErrIn(pre)) =>
                /\ result[t].kind \in {"Pending", "Ok"}
                /\ ~Returned(t) =>
                       /\ IsPrefix(Read(t), pre)
                       /\ SentBy(t, sinkLog) \o InFlight(t) = Read(t)
                /\ Returned(t) =>
                       /\ result[t] = OkQuota(in[k])
                       /\ SentBy(t, sinkLog) = pre

C7_Witness ==
    \E t \in Tasks :
        /\ Returned(t) /\ cmd[t] = "get_quota" /\ result[t].kind = "Ok"
        /\ command_tag[t] = "A"
        /\ \E i \in 1..Len(sinkLog) : sinkLog[i] = [task |-> t, rec |-> Done("B")]

\* C8: within one execution of get_quota or get_quota_root, the records the
\* command forwards enter the unsolicited channel in the order in which they
\* were read: the i-th record the task put into the channel is the i-th
\* forwarded record it read.
C8_SinkOrder ==
    \A t \in Tasks :
        pc[t] # "idle" =>
            /\ IsPrefix(SentBy(t, sinkLog), Forwardable(t, Read(t)))
            /\ SentBy(t, sinkLog) \o InFlight(t) = Forwardable(t, Read(t))

C8_Witness ==
    \E t \in Tasks :
        /\ Len(SentBy(t, sinkLog)) >= 2
        /\ SentBy(t, sinkLog)[1] # SentBy(t, sinkLog)[2]
        /\ SentBy(t, sinkLog) = Forwardable(t, Read(t))

\* C9: when the tagged completion is in the stream (preceded by records
\* only), get_quota_root eventually consumes it and returns, whatever the
\* subscribers do: also with the channel at capacity and never drained
\* (forwarding a record never blocks the command for ever).
C9_CompletionEventuallyConsumed ==
    \A t \in Tasks :
        (/\ cmd[t] = "get_quota_root" /\ pc[t] \in {"next", "send"}
         /\ FirstDone(t, Input(t)) > 0
         /\ NoErrIn(SubSeq(Input(t), 1, FirstDone(t, Input(t)))))
            ~> (Returned(t) /\ pos[sid[t]] = start[t] + FirstDone(t, Input(t)))

\* C10: neither command takes from the stream an item that lies after the
\* first tagged completion for its tag: the number of items taken never
\* exceeds the position of that completion.
C10_NoReadPastCompletion ==
    \A t \in Tasks :
        (pc[t] # "idle" /\ FirstDone(t, Input(t)) > 0)
            => pos[sid[t]] <= start[t] + FirstDone(t, Input(t))

C10_Witness ==
    \E t \in Tasks :
        /\ Returned(t)
        /\ FirstDone(t, Input(t)) > 0
        /\ pos[sid[t]] = start[t] + FirstDone(t, Input(t))
        /\ FirstDone(t, Input(t)) < Len(Input(t))

\* ------------------------------------------ properties of names (name.rs)
\* The closed vocabularies of the classification and the attribute each
\* token stands for.
Vocabulary ==
    [s \in {"\\Noinferiors", "\\Noselect", "\\Marked", "\\Unmarked", "\\All",
            "\\Archive", "\\Drafts", "\\Flagged", "\\Junk", "\\Sent", "\\Trash"} |->
        CASE s = "\\Noinferiors" -> NoInferiors
          [] s = "\\Noselect" -> NoSelect
          [] s = "\\Marked" -> Marked
          [] s = "\\Unmarked" -> Unmarked
          [] s = "\\All" -> SpecialUseMailbox("All")
          [] s = "\\Archive" -> SpecialUseMailbox("Archive")
          [] s = "\\Drafts" -> SpecialUseMailbox("Drafts")
          [] s = "\\Flagged" -> SpecialUseMailbox("Flagged")
          [] s = "\\Junk" -> SpecialUseMailbox("Junk")
          [] s = "\\Sent" -> SpecialUseMailbox("Sent")
          [] s = "\\Trash" -> SpecialUseMailbox("Trash")]

\* The attribute a token is to be classified as: its vocabulary entry, else
\* Custom holding the token itself.
Classified(s) == IF s \in DOMAIN Vocabulary THEN Vocabulary[s] ELSE Custom("-", s)

HasClassified == attr_owned # NoAttr /\ attr_borrowed # NoAttr

\* C11: classification is total and exact: each structural token yields its
\* variant, each special-use token the SpecialUse variant of the same name,
\* and every other string s (one differing only in case included) yields
\* Custom(s) holding exactly s.
C11_ClassificationExact ==
    HasClassified =>
        \A a \in {attr_owned, attr_borrowed} :
            /\ attr_eq(a, Classified(token))
            /\ a.variant = "Custom" <=> token \notin DOMAIN Vocabulary
            /\ a.variant = "Custom" => a.text = token

C11_Witness ==
    /\ token = "\\noselect"
    /\ attr_borrowed = Custom("Borrowed", "\\noselect")
    /\ attr_owned = Custom("Owned", "\\noselect")

\* C12: the Name built from a mailbox-listing record with flags f1..fn,
\* optional delimiter d and name m exposes attributes() = [classify(f1), ..,
\* classify(fn)] (same length, same order), delimiter() = d and name() = m.
C12_NameExposesRecord ==
    name.state = "built" =>
        /\ Len(Name_attributes(name)) = Len(response.flags)
        /\ \A i \in 1..Len(response.flags) :
               attr_eq(Name_attributes(name)[i], Classified(response.flags[i]))
        /\ Name_delimiter(name) = response.delimiter
        /\ Name_name(name) = response.name

C12_Witness ==
    /\ name.state = "built"
    /\ response.flags = <<"\\Noselect", "\\Marked", "\\Foo">>
    /\ Name_attributes(name) = <<NoSelect, Marked, Custom("Borrowed", "\\Foo")>>
    /\ Name_delimiter(name) = <<"/">>
    /\ Name_name(name) = "INBOX/Sub"

\* C13: from_mailbox_data panics for every record that is not mailbox-listing
\* data (it yields neither a Name nor an error value), and never fails for a
\* record that is.
C13_PanicIffNotList ==
    name.state # "none" =>
        /\ name.state \in {"built", "dropped", "panicked"}
        /\ response.kind = "List" <=> name.state \in {"built", "dropped"}
        /\ response.kind # "List" <=> name.state = "panicked"

C13_Witness ==
    name.state = "panicked" /\ response.kind = "MailboxStatus"

\* C20: the two entry points agree: NameAttribute::from of an owned String
\* and of a borrowed &str with the same text are equal attributes.
C20_OwnedBorrowedAgree ==
    HasClassified => attr_eq(attr_owned, attr_borrowed)

C20_Witness ==
    /\ token = "\\Foo"
    /\ attr_owned = Custom("Owned", "\\Foo")
    /\ attr_borrowed = Custom("Borrowed", "\\Foo")
    /\ attr_owned # attr_borrowed

\* ------------------------------- properties of the accumulation (quota.rs)
\* The records among the items s that are not the tagged completion for t.
NonTerminal(t, s) ==
    LET keep(r) == r.kind # "Err" /\ ~IsCompletion(t, r)
    IN  SelectSeq(s, keep)

\* Index in sequence s of the first I/O error item; 0 if none.
FirstErr(s) ==
    IF \E i \in 1..Len(s) : s[i].kind = "Err"
    THEN CHOOSE i \in 1..Len(s) :
             s[i].kind = "Err" /\ \A j \in 1..(i - 1) : s[j].kind # "Err"
    ELSE 0

\* C17: in get_quota_root every record read before the tagged completion
\* goes to exactly one destination: roots holds exactly the quota-root records
\* read, quotas exactly the quota records read, the channel received exactly
\* the other records (the one being sent included); no quota or quota-root
\* record is ever sent to the channel, and roots + quotas + sends add up to the
\* number of non-terminal records read.
C17_OneDestination ==
    \A t \in Tasks :
        (cmd[t] = "get_quota_root" /\ pc[t] # "idle") =>
            LET rd == NonTerminal(t, Read(t))
                sent == SentBy(t, sinkLog) \o InFlight(t)
                isOther(r) == r.kind \notin {"Quota", "QuotaRoot"}
            IN  /\ roots[t] = SelectSeq(rd, IsQuotaRoot)
                /\ quotas[t] = SelectSeq(rd, IsQuota)
                /\ sent = SelectSeq(rd, isOther)
                /\ \A i \in 1..Len(sent) : sent[i].kind \notin {"Quota", "QuotaRoot"}
                /\ Len(roots[t]) + Len(quotas[t]) + Len(sent) = Len(rd)

C17_Witness ==
    \E t \in Tasks :
        /\ Returned(t) /\ cmd[t] = "get_quota_root" /\ result[t].kind = "Ok"
        /\ Read(t) # <<>> /\ IsCompletion(t, Read(t)[Len(Read(t))])
        /\ Len(roots[t]) = 1 /\ Len(quotas[t]) = 1
        /\ SentBy(t, sinkLog) = <<Other>>
        /\ Len(Read(t)) = 4

\* C18: an I/O error item taken from the stream ends the call at that point:
\* the call has returned, its result is that error (for get_quota_root not the
\* collections accumulated so far), and the error is the last item the call
\* took. Stated on the input as well: when the first error item precedes the
\* tagged completion (and, for get_quota, the first quota record), the call
\* returns the error having taken the items up to it and no more; and an error
\* result never comes from anything but an error item.
C18_IoErrorReturned ==
    \A t \in Tasks :
        pc[t] # "idle" =>
            LET rd == Read(t)
                in == Input(t)
                e == FirstErr(in)
                d == FirstDone(t, in)
            IN  /\ FirstErr(rd) > 0 =>
                       /\ Returned(t)
                       /\ result[t] = ErrIo
                       /\ FirstErr(rd) = Len(rd)
                /\ result[t].kind = "Err" => FirstErr(rd) > 0
                /\ (/\ Returned(t) /\ e > 0 /\ (d = 0 \/ e < d)
                    /\ (cmd[t] = "get_quota" => FirstQuota(SubSeq(in, 1, e)) = 0))
                       => (result[t] = ErrIo /\ pos[sid[t]] = start[t] + e)

C18_Witness ==
    \E t \in Tasks :
        /\ Returned(t) /\ cmd[t] = "get_quota_root" /\ result[t] = ErrIo
        /\ roots[t] # <<>> /\ quotas[t] # <<>>
        /\ Read(t)[Len(Read(t))] = IoErr
        /\ Len(Read(t)) < Len(Input(t))
        /\ FirstDone(t, Input(t)) > Len(Read(t))

\* ------------------------------------------------ properties of cancellation
\* C14: once the task of get_quota or get_quota_root has been cancelled at a
\* suspension point, no result is delivered to the caller for that command: in
\* the step that cancels it and in every later step the result stays Pending
\* and the call stays cancelled (it never returns).
C14_CancelledDeliversNothing ==
    [][\A t \in Tasks :
          (pc[t] = "cancelled" \/ pc'[t] = "cancelled") =>
              /\ pc'[t] = "cancelled"
              /\ result[t] = Pending
              /\ result'[t] = Pending]_vars

C14_Witness ==
    \E t \in Tasks :
        /\ pc[t] = "cancelled" /\ cmd[t] = "get_quota_root"
        /\ roots[t] # <<>> /\ quotas[t] # <<>>
        /\ result[t] = Pending
        /\ FirstDone(t, Input(t)) > Len(Read(t))
        /\ Len(SentBy(t, sinkLog)) < Len(Forwardable(t, Read(t)))

\* ------------------------------------------------- properties of concurrency
\* C15: with two commands running at once on separate streams and one shared
\* channel, in every interleaving the records each command has put into the
\* channel, followed by the one it is sending, are exactly the records it had
\* to forward of those it read, in the order it read them (none lost, none
\* twice); the channel received nothing else; and a command that has returned
\* has put all of them into the channel.
C15_ConcurrentForwarding ==
    /\ \A t \in Tasks :
           /\ SentBy(t, sinkLog) \o InFlight(t) = Forwardable(t, Read(t))
           /\ Returned(t) => SentBy(t, sinkLog) = Forwardable(t, Read(t))
    /\ \A i \in 1..Len(sinkLog) : sinkLog[i].task \in Tasks
    /\ Len(sinkLog) = Len(SentBy(1, sinkLog)) + Len(SentBy(2, sinkLog))

C15_Witness ==
    /\ Len(sinkLog) = 3
    /\ sinkLog[1].task = 1 /\ sinkLog[2].task = 2 /\ sinkLog[3].task = 1
    /\ sinkLog[1].rec # sinkLog[3].rec
    /\ SentBy(1, sinkLog) = Read(1)
    /\ Returned(2) /\ result[2].kind = "Ok"
    /\ Read(2) = <<Other, Done("B")>>

\* ------------------------------------------ properties of successive commands
\* The records of a result that came in the reply to the command with tag A.
FromReplyA(res) ==
    {r \in {res.quota[i] : i \in 1..Len(res.quota)}
            \cup {res.roots[i] : i \in 1..Len(res.roots)}
            \cup {res.quotas[i] : i \in 1..Len(res.quotas)} : r.id = 1}

\* C19: when a command with tag A and then a command with tag B run on the
\* same stream, the second one starts reading at the record right after A's
\* tagged completion; its result holds no record sent in reply to A, and A's
\* tagged completion is never put into the unsolicited channel.
C19_SecondStartsAfterCompletion ==
    pc[2] # "idle" =>
        /\ start[2] = FirstDone(1, stream[sid[1]])
        /\ FromReplyA(result[2]) = {}
        /\ \A i \in 1..Len(sinkLog) : sinkLog[i].rec # Done("A")

====
